---- MODULE Spec2Model ----
(***************************************************************************)
(* Model of app.py, the Inside Airbnb dashboard: one Streamlit script that *)
(* loads listings.csv, cleans it, reads three sidebar widgets, filters the *)
(* canonical frame and renders metrics, a map, a neighbourhood analysis    *)
(* and two rankings.  A script run is modelled as a sequence of steps (pc) *)
(* in source order; a widget change re-runs the script (Rerun).            *)
(*                                                                         *)
(* Conventions                                                             *)
(*  - a CSV cell is text; the price cell is a sequence of characters so    *)
(*    that stripping and parsing are computed, not assumed;                *)
(*  - a parsed price is an integer number of cents (price texts carry at   *)
(*    most two decimals), slider bounds are integer dollars;               *)
(*  - a DataFrame is [rows |-> sequence of row records]; a Python None, or *)
(*    a name not yet bound in this run, is the record None;                *)
(*  - a mean is the exact fraction [num, den]; the mean of no rows is NaN. *)
(* Columns that no modelled output reads (accommodates, availability_365,  *)
(* host_is_superhost, review_scores_rating, instant_bookable) are not      *)
(* carried; listing names and review counts are taken to be present.       *)
(***************************************************************************)
EXTENDS Integers, Sequences, FiniteSets, TLC

VARIABLES source, df, error, pc, criteria, filtered, metrics, warning,
          map_data, map_df, price_stats, neighborhood_data, price_chart,
          count_chart, top_expensive, top_reviewed

vars == <<source, df, error, pc, criteria, filtered, metrics, warning,
          map_data, map_df, price_stats, neighborhood_data, price_chart,
          count_chart, top_expensive, top_reviewed>>

derived == <<filtered, metrics, warning, map_data, map_df, price_stats,
             neighborhood_data, price_chart, count_chart, top_expensive,
             top_reviewed>>

(***************************************************************************)
(* Bounds of the model                                                     *)
(***************************************************************************)
MaxLoadRows == 2
MaxGroup == 4

(***************************************************************************)
(* Program constants                                                       *)
(***************************************************************************)
PriceFloor == 10
PriceCeiling == 1000
DefaultLow == 50
DefaultHigh == 300
MapSampleCap == 500
MinGroupSize == 3
TopListings == 5
TopNeighborhoods == 5
TopChart == 10

None == [none |-> TRUE]
NaN == [nan |-> TRUE]
Frame(rows) == [rows |-> rows]

(***************************************************************************)
(* Generic helpers                                                         *)
(***************************************************************************)
Range(s) == {s[i] : i \in 1..Len(s)}

Min2(a, b) == IF a <= b THEN a ELSE b

Max2(a, b) == IF a >= b THEN a ELSE b

Head_n(s, n) == SubSeq(s, 1, Min2(n, Len(s)))

\* sums, minima and maxima are folded by halves, which keeps the evaluation
\* shallow on frames of several hundred rows
RECURSIVE SumRange(_, _, _)
SumRange(s, lo, hi) ==
    IF lo > hi THEN 0
    ELSE IF lo = hi THEN s[lo]
    ELSE SumRange(s, lo, (lo + hi) \div 2) + SumRange(s, (lo + hi) \div 2 + 1, hi)

SumSeq(s) == SumRange(s, 1, Len(s))

RECURSIVE MinRange(_, _, _)
MinRange(s, lo, hi) ==
    IF lo = hi THEN s[lo]
    ELSE Min2(MinRange(s, lo, (lo + hi) \div 2), MinRange(s, (lo + hi) \div 2 + 1, hi))

MinSeq(s) == MinRange(s, 1, Len(s))

RECURSIVE MaxRange(_, _, _)
MaxRange(s, lo, hi) ==
    IF lo = hi THEN s[lo]
    ELSE Max2(MaxRange(s, lo, (lo + hi) \div 2), MaxRange(s, (lo + hi) \div 2 + 1, hi))

MaxSeq(s) == MaxRange(s, 1, Len(s))

Column(rows, f) == [i \in 1..Len(rows) |-> rows[i][f]]

\* Series.mean(): NaN over no rows, otherwise the exact quotient sum / count
Mean(xs) == IF Len(xs) = 0 THEN NaN ELSE [num |-> SumSeq(xs), den |-> Len(xs)]

\* round-half-to-even of num / den (num >= 0, den > 0), as format() and round() do
RoundHalfEven(num, den) ==
    LET q == num \div den
        r == num % den
    IN  IF 2 * r < den THEN q
        ELSE IF 2 * r > den THEN q + 1
        ELSE IF q % 2 = 0 THEN q ELSE q + 1

\* f"{x:.0f}" of a value held in units of 1/scale: the text "nan" for NaN
Format0(m, scale) ==
    IF m = NaN THEN [text |-> "nan"]
    ELSE [number |-> RoundHalfEven(m.num, m.den * scale)]

\* f"{x:.1f}": tenths
Format1(m) ==
    IF m = NaN THEN [text |-> "nan"]
    ELSE [tenths |-> RoundHalfEven(m.num * 10, m.den)]

\* sorted(): the order of the one-letter names the model's tables use
NameOrder == <<"A", "B", "C", "M", "Z">>

NameRank(n) == CHOOSE i \in 1..Len(NameOrder) : NameOrder[i] = n

(***************************************************************************)
(* load_data: read_csv, dropna, price cleaning, outlier band               *)
(***************************************************************************)
Digits == {"0", "1", "2", "3", "4", "5", "6", "7", "8", "9"}

DigitVal(c) ==
    CASE c = "0" -> 0 [] c = "1" -> 1 [] c = "2" -> 2 [] c = "3" -> 3
      [] c = "4" -> 4 [] c = "5" -> 5 [] c = "6" -> 6 [] c = "7" -> 7
      [] c = "8" -> 8 [] c = "9" -> 9

\* pandas' default na_values met in the model's tables: read_csv reads them as NaN
NaText == {"", "N/A"}

NaPriceText == {<<>>, <<"N", "/", "A">>}

IsNaText(cell) == cell \in NaText

IsNaPrice(cell) == cell \in NaPriceText

\* read_csv: the rows in file order, each with its index label
ReadCsv(table) == [i \in 1..Len(table) |-> [table[i] EXCEPT !.idx = i]]

\* dropna(subset=[price, latitude, longitude, room_type, neighbourhood_cleansed])
Complete(r) ==
    /\ ~IsNaPrice(r.price)
    /\ ~IsNaText(r.latitude)
    /\ ~IsNaText(r.longitude)
    /\ ~IsNaText(r.room_type)
    /\ ~IsNaText(r.neighbourhood_cleansed)

DropNa(rows) == SelectSeq(rows, Complete)

\* .replace('[\\$,]', '', regex=True): every "$" and "," removed
StripPrice(text) == SelectSeq(text, LAMBDA c : c \notin {"$", ","})

RECURSIVE DigitsValue(_)
DigitsValue(s) ==
    IF s = <<>> THEN 0
    ELSE DigitsValue(SubSeq(s, 1, Len(s) - 1)) * 10 + DigitVal(s[Len(s)])

\* float(text) for the texts of the model: digits with at most one point and
\* at least one digit; anything else raises ValueError
IsFloatText(s) ==
    /\ \A i \in 1..Len(s) : s[i] \in Digits \cup {"."}
    /\ Cardinality({i \in 1..Len(s) : s[i] = "."}) <= 1
    /\ \E i \in 1..Len(s) : s[i] \in Digits

\* the value of a float text in cents (at most two decimals)
FloatCents(s) ==
    LET dots == {i \in 1..Len(s) : s[i] = "."}
        p == IF dots = {} THEN Len(s) + 1 ELSE CHOOSE i \in dots : TRUE
        whole == SubSeq(s, 1, p - 1)
        frac == SubSeq(s, p + 1, Len(s))
    IN  DigitsValue(whole) * 100
          + (IF Len(frac) = 0 THEN 0
             ELSE IF Len(frac) = 1 THEN DigitVal(frac[1]) * 10
             ELSE DigitsValue(SubSeq(frac, 1, 2)))

\* .astype(float) raises as soon as one remaining cell is not a float text
AstypeFloatRaises(rows) ==
    \E i \in 1..Len(rows) : ~IsFloatText(StripPrice(rows[i].price))

CleanPrice(rows) ==
    [i \in 1..Len(rows) |->
        [rows[i] EXCEPT !.price = FloatCents(StripPrice(rows[i].price))]]

\* df[(df['price'] >= 10) & (df['price'] <= 1000)]
InBand(r) == r.price >= PriceFloor * 100 /\ r.price <= PriceCeiling * 100

\* load_data with the broad handler placed first: a missing file is reported
\* like any other failure
load_data_one_handler(src) ==
    IF src.kind # "table" THEN [df |-> None, error |-> "Exception"]
    ELSE LET kept == DropNa(ReadCsv(src.rows))
         IN  IF AstypeFloatRaises(kept)
             THEN [df |-> None, error |-> "Exception"]
             ELSE [df |-> Frame(SelectSeq(CleanPrice(kept), InBand)),
                   error |-> "none"]

\* load_data(): [df, error]
load_data(src) ==
    IF src.kind = "missing" THEN [df |-> None, error |-> "FileNotFoundError"]
    ELSE IF src.kind = "malformed" THEN [df |-> None, error |-> "Exception"]
    ELSE LET kept == DropNa(ReadCsv(src.rows))
         IN  IF AstypeFloatRaises(kept)
             THEN [df |-> None, error |-> "Exception"]
             ELSE [df |-> Frame(SelectSeq(CleanPrice(kept), InBand)),
                   error |-> "none"]

(***************************************************************************)
(* The sources the model is run on: listings.csv absent, unreadable, or a  *)
(* table drawn from four families of rows                                  *)
(***************************************************************************)
Row(name, nb, rt, price, lat, lon, reviews) ==
    [idx |-> 0, name |-> name, neighbourhood_cleansed |-> nb, room_type |-> rt,
     price |-> price, latitude |-> lat, longitude |-> lon,
     number_of_reviews |-> reviews]

P999 == <<"$", "9", ".", "9", "9">>
P10 == <<"$", "1", "0", ".", "0", "0">>
P42 == <<"4", "2">>
P50 == <<"$", "5", "0", ".", "0", "0">>
P100 == <<"$", "1", "0", "0", ".", "0", "0">>
P120 == <<"1", "2", "0", ".", "5">>
P200 == <<"$", "2", "0", "0", ".", "0", "0">>
P300 == <<"$", "3", "0", "0", ".", "0", "0">>
P400 == <<"$", "4", "0", "0", ".", "0", "0">>
P45050 == <<"$", "4", "5", "0", ".", "5", "0">>
P1000 == <<"$", "1", ",", "0", "0", "0", ".", "0", "0">>
P100001 == <<"1", "0", "0", "0", ".", "0", "1">>
PNA == <<"N", "/", "A">>
Pabc == <<"a", "b", "c">>

\* family 1: one complete row per price text, one row per missing field
LoadRows ==
    {Row("A", "A", "Entire", t, "42.6", "-73.7", 1) :
        t \in {P999, P10, P42, P45050, P1000, P100001, PNA, Pabc}}
    \cup {Row("A", "A", "Entire", <<>>, "42.6", "-73.7", 1),
          Row("A", "A", "Entire", P100, "", "-73.7", 1),
          Row("A", "A", "Entire", P100, "42.6", "N/A", 1),
          Row("A", "A", "", P100, "42.6", "-73.7", 1),
          Row("A", "", "Entire", P100, "42.6", "-73.7", 1),
          Row("A", "A", "Entire", Pabc, "", "-73.7", 1)}

LoadTables == UNION {[1..n -> LoadRows] : n \in 0..MaxLoadRows}

\* family 2: a listings of A, b of B, c of C; room type, price and review
\* count vary with the position in the group
GroupRow(nb, j) ==
    Row(nb, nb, IF j = 2 THEN "Private" ELSE "Entire",
        CASE nb = "A" -> (IF j = 1 THEN P50 ELSE IF j <= 3 THEN P300 ELSE P400)
          [] nb = "B" -> (IF j = 1 THEN P400 ELSE P120)
          [] OTHER -> (IF j = 2 THEN P42 ELSE P200),
        "42.6", "-73.7", j % 3)

GroupTable(a, b, c) ==
    [j \in 1..a |-> GroupRow("A", j)] \o [j \in 1..b |-> GroupRow("B", j)]
        \o [j \in 1..c |-> GroupRow("C", j)]

GroupTables ==
    {GroupTable(a, b, c) : a \in 0..MaxGroup, b \in 0..MaxGroup, c \in 0..MaxGroup}

\* family 3: every order of every subset of three listings, two of them tied
\* on price and review count
RankRows ==
    {Row("Z", "Z", "Entire", P100, "42.6", "-73.7", 100),
     Row("A", "A", "Entire", P100, "42.6", "-73.7", 100),
     Row("M", "M", "Entire", P200, "42.6", "-73.7", 200)}

RankTables ==
    {t \in UNION {[1..n -> RankRows] : n \in 0..Cardinality(RankRows)} :
        \A i, j \in 1..Len(t) : i # j => t[i] # t[j]}

\* family 4: tables of exactly and of one more than the map's sample cap
BigTable(n) ==
    [i \in 1..n |->
        Row("A", "A", "Entire", IF i = 1 THEN P400 ELSE P100, "42.6", "-73.7", 1)]

BigTables == {BigTable(MapSampleCap), BigTable(MapSampleCap + 1)}

Sources ==
    {[kind |-> "missing"], [kind |-> "malformed"]}
    \cup {[kind |-> "table", rows |-> t] :
            t \in LoadTables \cup GroupTables \cup RankTables \cup BigTables}

Init ==
    /\ source \in Sources
    /\ df = None
    /\ error = "none"
    /\ pc = "start"
    /\ criteria = None
    /\ filtered = None
    /\ metrics = None
    /\ warning = None
    /\ map_data = None
    /\ map_df = None
    /\ price_stats = None
    /\ neighborhood_data = None
    /\ price_chart = None
    /\ count_chart = None
    /\ top_expensive = None
    /\ top_reviewed = None

(***************************************************************************)
(* Lines 36-38, 447-448: df = load_data(); the script goes on only when df *)
(* is not None, otherwise st.stop()                                        *)
(***************************************************************************)
LoadData ==
    /\ pc = "start"
    /\ LET r == load_data(source)
       IN  /\ df' = r.df
           /\ error' = r.error
           /\ pc' = IF r.df = None THEN "stopped" ELSE "widgets"
    /\ UNCHANGED <<source, criteria, derived>>

(***************************************************************************)
(* Lines 45-65: the sidebar widgets                                        *)
(***************************************************************************)
Unique(rows, f) == {rows[i][f] : i \in 1..Len(rows)}

\* int(df['price'].min()), int(df['price'].max()): whole dollars
PriceMinInt(d) == MinSeq(Column(d.rows, "price")) \div 100

PriceMaxInt(d) == MaxSeq(Column(d.rows, "price")) \div 100

\* st.slider widens its limits so that they contain the default value
SliderLow(d) == Min2(DefaultLow, PriceMinInt(d))

SliderHigh(d) == Max2(DefaultHigh, PriceMaxInt(d))

\* the slider positions the model lets the user pick
SliderStops(d) == {SliderLow(d), DefaultLow, DefaultHigh, SliderHigh(d)}

\* every selection the three widgets can return for the frame d
Selections(d) ==
    {c \in [neighborhood : {"All"} \cup Unique(d.rows, "neighbourhood_cleansed"),
            room_type : {"All"} \cup Unique(d.rows, "room_type"),
            price_min : SliderStops(d),
            price_max : SliderStops(d)] : c.price_min <= c.price_max}

\* first run: the widgets return their defaults; int(NaN) raises on an empty frame
Widgets ==
    /\ pc = "widgets"
    /\ IF Len(df.rows) = 0
       THEN /\ pc' = "crashed"
            /\ UNCHANGED criteria
       ELSE /\ criteria' = [neighborhood |-> "All", room_type |-> "All",
                            price_min |-> DefaultLow, price_max |-> DefaultHigh]
            /\ pc' = "filter"
    /\ UNCHANGED <<source, df, error, derived>>

(***************************************************************************)
(* Lines 67-76: Apply filters                                              *)
(***************************************************************************)
ByNeighborhood(rows, n) ==
    SelectSeq(rows, LAMBDA r : r.neighbourhood_cleansed = n)

ByRoomType(rows, t) == SelectSeq(rows, LAMBDA r : r.room_type = t)

\* between(..., inclusive='neither'): both bounds left out
ByPriceExclusive(rows, a, b) ==
    SelectSeq(rows, LAMBDA r : r.price > a * 100 /\ r.price < b * 100)

\* Series.between(price_min, price_max): inclusive on both sides
ByPrice(rows, a, b) ==
    SelectSeq(rows, LAMBDA r : r.price >= a * 100 /\ r.price <= b * 100)

ApplyFiltersTo(rows, c) ==
    LET f0 == rows
        f1 == IF c.neighborhood # "All" THEN ByNeighborhood(f0, c.neighborhood) ELSE f0
        f2 == IF c.room_type # "All" THEN ByRoomType(f1, c.room_type) ELSE f1
    IN  ByPrice(f2, c.price_min, c.price_max)

\* the filter written back to the name df instead of to filtered alone
ApplyFiltersInPlace ==
    /\ pc = "filter"
    /\ filtered' = Frame(ApplyFiltersTo(df.rows, criteria))
    /\ df' = filtered'
    /\ pc' = "metrics"
    /\ UNCHANGED <<source, error, criteria, metrics, warning, map_data, map_df,
                   price_stats, neighborhood_data, price_chart, count_chart,
                   top_expensive, top_reviewed>>

ApplyFilters ==
    /\ pc = "filter"
    /\ filtered' = Frame(ApplyFiltersTo(df.rows, criteria))
    /\ pc' = "metrics"
    /\ UNCHANGED <<source, df, error, criteria, metrics, warning, map_data, map_df,
                   price_stats, neighborhood_data, price_chart, count_chart,
                   top_expensive, top_reviewed>>

(***************************************************************************)
(* Lines 82-95: Display metrics, then the empty-view warning               *)
(***************************************************************************)
SummaryMetrics(f) ==
    [total |-> Len(f.rows),
     avg_price |-> Format0(Mean(Column(f.rows, "price")), 100),
     avg_reviews |-> Format1(Mean(Column(f.rows, "number_of_reviews"))),
     neighborhoods |-> Cardinality(Unique(f.rows, "neighbourhood_cleansed"))]

DisplayMetrics ==
    /\ pc = "metrics"
    /\ metrics' = SummaryMetrics(filtered)
    /\ warning' = (Len(filtered.rows) = 0)
    /\ pc' = IF Len(filtered.rows) = 0 THEN "insights" ELSE "tab3"
    /\ UNCHANGED <<source, df, error, criteria, filtered, map_data, map_df,
                   price_stats, neighborhood_data, price_chart, count_chart,
                   top_expensive, top_reviewed>>

(***************************************************************************)
(* Lines 100-134: tabs 1 and 2 hand comparison_data (a copy or a selection *)
(* of df) and filtered to charts and bind nothing that is read later.      *)
(* Lines 136-245: tab 3, the map                                           *)
(***************************************************************************)
\* the k-element subsets of a set of index labels, each built in ascending order
RECURSIVE KSubsets(_, _)
KSubsets(labels, k) ==
    IF k = 0 THEN {{}}
    ELSE UNION {{S \cup {i} : i \in {j \in labels : \A x \in S : j > x}} :
                  S \in KSubsets(labels, k - 1)}

\* the rows whose index label is not in drop
Without(rows, drop) == SelectSeq(rows, LAMBDA r : r.idx \notin drop)

\* filtered.sample(min(500, len(filtered))) if len(filtered) > 500 else filtered:
\* every draw of 500 rows is possible (the draw's shuffling of the rows, which
\* no statistic reads, is left out)
MapSamples(f) ==
    IF Len(f.rows) > MapSampleCap
    THEN {Frame(Without(f.rows, drop)) :
            drop \in KSubsets(Unique(f.rows, "idx"),
                              Len(f.rows) - Min2(MapSampleCap, Len(f.rows)))}
    ELSE {f}

get_price_color(price) ==
    IF price < 75 * 100 THEN "#2E8B57"
    ELSE IF price < 150 * 100 THEN "#FFD700"
    ELSE IF price < 250 * 100 THEN "#FF8C00"
    ELSE "#DC143C"

\* map_data[[...]].copy() with the colour column added
MapFrame(m) ==
    Frame([i \in 1..Len(m.rows) |->
        [latitude |-> m.rows[i].latitude, longitude |-> m.rows[i].longitude,
         price |-> m.rows[i].price, name |-> m.rows[i].name,
         neighbourhood_cleansed |-> m.rows[i].neighbourhood_cleansed,
         number_of_reviews |-> m.rows[i].number_of_reviews,
         color |-> get_price_color(m.rows[i].price)]])

\* the legend's Min / Max / Avg lines, each formatted with .0f
PriceStats(m) ==
    LET prices == Column(m.rows, "price")
    IN  [min |-> Format0([num |-> MinSeq(prices), den |-> 1], 100),
         max |-> Format0([num |-> MaxSeq(prices), den |-> 1], 100),
         avg |-> Format0(Mean(prices), 100)]

GeographicMap ==
    /\ pc = "tab3"
    /\ \E m \in MapSamples(filtered) :
          /\ map_data' = m
          /\ map_df' = MapFrame(m)
          /\ price_stats' = PriceStats(m)
    /\ pc' = "tab4"
    /\ UNCHANGED <<source, df, error, criteria, filtered, metrics, warning,
                   neighborhood_data, price_chart, count_chart, top_expensive,
                   top_reviewed>>

(***************************************************************************)
(* Lines 247-415: tab 4, the neighbourhood analysis                        *)
(***************************************************************************)
\* groupby('neighbourhood_cleansed'): the group keys in ascending order
GroupKeys(rows) ==
    SelectSeq(NameOrder, LAMBDA n : n \in Unique(rows, "neighbourhood_cleansed"))

\* one row of the aggregate, rounded to two decimals
Aggregate(rows, n) ==
    LET g == ByNeighborhood(rows, n)
    IN  [neighbourhood_cleansed |-> n,
         avg_price |-> RoundHalfEven(SumSeq(Column(g, "price")), Len(g)),
         total_listings |-> Len(g),
         avg_reviews |->
            RoundHalfEven(SumSeq(Column(g, "number_of_reviews")) * 100, Len(g))]

\* the size test written with > in place of >=
MoreThanMinListings(a) == a.total_listings > MinGroupSize

\* neighborhood_data[neighborhood_data['total_listings'] >= 3]
EnoughListings(a) == a.total_listings >= MinGroupSize

NeighborhoodData(d) ==
    LET keys == GroupKeys(d.rows)
        agg == [i \in 1..Len(keys) |-> Aggregate(d.rows, keys[i])]
    IN  Frame(SelectSeq(agg, EnoughListings))

\* the position in lo..hi, among those not yet taken, of the first largest key
\* (0 when all are taken); folded by halves
RECURSIVE FirstLargest(_, _, _, _)
FirstLargest(keys, taken, lo, hi) ==
    IF lo = hi THEN (IF lo \in taken THEN 0 ELSE lo)
    ELSE LET l == FirstLargest(keys, taken, lo, (lo + hi) \div 2)
             r == FirstLargest(keys, taken, (lo + hi) \div 2 + 1, hi)
         IN  IF l = 0 THEN r
             ELSE IF r = 0 THEN l
             ELSE IF keys[r] > keys[l] THEN r ELSE l

RECURSIVE NLargestIdx(_, _, _)
NLargestIdx(keys, n, taken) ==
    IF n = 0 \/ Cardinality(taken) = Len(keys) THEN <<>>
    ELSE LET b == FirstLargest(keys, taken, 1, Len(keys))
         IN  <<b>> \o NLargestIdx(keys, n - 1, taken \cup {b})

\* DataFrame.nlargest(n, column), keep='first': descending by the column, equal
\* values in the order the rows have in the frame
nlargest(rows, n, column) ==
    LET ix == NLargestIdx(Column(rows, column), n, {})
    IN  [p \in 1..Len(ix) |-> rows[ix[p]]]

NeighborhoodInsights ==
    /\ pc = "tab4"
    /\ LET nd == NeighborhoodData(df)
       IN  /\ neighborhood_data' = nd
           /\ IF Len(nd.rows) > 0
              THEN /\ price_chart' = Frame(nlargest(nd.rows, TopChart, "avg_price"))
                   /\ count_chart' =
                         Frame(nlargest(nd.rows, TopChart, "total_listings"))
              ELSE UNCHANGED <<price_chart, count_chart>>
    /\ pc' = "insights"
    /\ UNCHANGED <<source, df, error, criteria, filtered, metrics, warning,
                   map_data, map_df, price_stats, top_expensive, top_reviewed>>

(***************************************************************************)
(* Lines 417-437: Data Insights, rendered for every view, empty or not     *)
(***************************************************************************)
\* df.groupby('neighbourhood_cleansed')['price'].mean(): key order, exact means
GroupMeans(rows) ==
    LET keys == GroupKeys(rows)
    IN  [i \in 1..Len(keys) |->
            [neighbourhood_cleansed |-> keys[i],
             mean |-> Mean(Column(ByNeighborhood(rows, keys[i]), "price"))]]

MeanGreater(a, b) == a.num * b.den > b.num * a.den

\* .sort_values(ascending=False) with the default quicksort: descending, and
\* rows of equal mean in whatever order the sort leaves them
SortValuesDescending(s) ==
    {[p \in 1..Len(s) |-> s[perm[p]]] :
        perm \in {f \in [1..Len(s) -> 1..Len(s)] :
                    /\ \A i, j \in 1..Len(s) : i # j => f[i] # f[j]
                    /\ \A i, j \in 1..Len(s) :
                          i < j => ~MeanGreater(s[f[j]].mean, s[f[i]].mean)}}

\* the lines written under "Most Expensive Neighborhoods"
ExpensiveLines(s) ==
    [p \in 1..Len(s) |->
        [neighbourhood_cleansed |-> s[p].neighbourhood_cleansed,
         price |-> Format0(s[p].mean, 100)]]

DataInsights ==
    /\ pc = "insights"
    /\ IF criteria.neighborhood = "All"
       THEN \E s \in SortValuesDescending(GroupMeans(df.rows)) :
               top_expensive' = [top |-> ExpensiveLines(Head_n(s, TopNeighborhoods))]
       ELSE top_expensive' =
               [neighborhood |-> criteria.neighborhood,
                avg_price |-> Format0(Mean(Column(filtered.rows, "price")), 100)]
    /\ top_reviewed' =
          Frame(nlargest(filtered.rows, TopListings, "number_of_reviews"))
    /\ pc' = "done"
    /\ UNCHANGED <<source, df, error, criteria, filtered, metrics, warning,
                   map_data, map_df, price_stats, neighborhood_data, price_chart,
                   count_chart>>

(***************************************************************************)
(* A widget change re-runs the script: the cached load_data() returns the  *)
(* same frame, the widgets return the new selection, every other name is   *)
(* unbound again                                                           *)
(***************************************************************************)
Rerun ==
    /\ pc = "done"
    /\ \E c \in Selections(df) :
          /\ c # criteria
          /\ criteria' = c
    /\ filtered' = None
    /\ metrics' = None
    /\ warning' = None
    /\ map_data' = None
    /\ map_df' = None
    /\ price_stats' = None
    /\ neighborhood_data' = None
    /\ price_chart' = None
    /\ count_chart' = None
    /\ top_expensive' = None
    /\ top_reviewed' = None
    /\ pc' = "filter"
    /\ UNCHANGED <<source, df, error>>

Next ==
    \/ LoadData
    \/ Widgets
    \/ ApplyFilters
    \/ DisplayMetrics
    \/ GeographicMap
    \/ NeighborhoodInsights
    \/ DataInsights
    \/ Rerun

Spec == Init /\ [][Next]_vars

(***************************************************************************)
(* Properties                                                              *)
(***************************************************************************)
Loaded == pc # "start"

\* a row the cleaning is to keep: the five fields present, the price text a
\* number once "$" and "," are gone, and that number within [10, 1000]
ValidRow(r) ==
    /\ r.price \notin {<<>>, PNA}
    /\ r.latitude \notin {"", "N/A"}
    /\ r.longitude \notin {"", "N/A"}
    /\ r.room_type \notin {"", "N/A"}
    /\ r.neighbourhood_cleansed \notin {"", "N/A"}
    /\ IsFloatText(StripPrice(r.price))
    /\ FloatCents(StripPrice(r.price)) >= 10 * 100
    /\ FloatCents(StripPrice(r.price)) <= 1000 * 100

\* the valid rows of a table in source order, prices as amounts
ValidRows(table) ==
    LET indexed == [i \in 1..Len(table) |-> [table[i] EXCEPT !.idx = i]]
        valid == SelectSeq(indexed, ValidRow)
    IN  [i \in 1..Len(valid) |->
            [valid[i] EXCEPT !.price = FloatCents(StripPrice(valid[i].price))]]

\* a complete row whose price text is no number after stripping
UnparsableRow(r) ==
    /\ r.latitude \notin {"", "N/A"}
    /\ r.longitude \notin {"", "N/A"}
    /\ r.room_type \notin {"", "N/A"}
    /\ r.neighbourhood_cleansed \notin {"", "N/A"}
    /\ r.price # <<>>
    /\ ~IsFloatText(StripPrice(r.price))

\* C1: for every source table, load_data returns exactly the source rows, in
\* source order, that have all five fields and a price within [10, 1000],
\* both ends included.
C1_LoadReturnsExactlyValidRows ==
    (Loaded /\ source.kind = "table") => df = Frame(ValidRows(source.rows))

\* C1, on the tables whose complete rows all carry a price text that parses
\* (or an NA marker): there load_data does return exactly the valid rows.
C1_HoldsWhereEveryPriceParses ==
    (Loaded /\ source.kind = "table"
        /\ \A i \in 1..Len(source.rows) :
              UnparsableRow(source.rows[i]) => source.rows[i].price = PNA)
    => df = Frame(ValidRows(source.rows))

\* C2: when a row's price text is still no number after stripping, load_data
\* leaves that row out and yields the cleaned rows of the rest; it does not
\* fail.
C2_UnparsablePriceRowExcluded ==
    (Loaded /\ source.kind = "table"
        /\ \E i \in 1..Len(source.rows) : UnparsableRow(source.rows[i]))
    => /\ df # None
       /\ error = "none"
       /\ df = Frame(ValidRows(source.rows))

\* C3: a failed load is reported as one of two distinct kinds (file not found,
\* or any other failure), and nothing runs after it: no selection is read, no
\* view, metric, aggregate or ranking is produced, and the run has stopped.
C3_LoadFailureHalts ==
    /\ (Loaded /\ df = None) =>
          /\ pc = "stopped"
          /\ error \in {"FileNotFoundError", "Exception"}
          /\ (error = "FileNotFoundError") <=> (source.kind = "missing")
          /\ criteria = None
          /\ \A i \in 1..Len(derived) : derived[i] = None
    /\ (Loaded /\ df # None) => error = "none"

C3_Witness ==
    /\ pc = "stopped"
    /\ source.kind = "malformed"
    /\ error = "Exception"
    /\ df = None

\* the criteria's predicate on one row, with the bounds in dollars
Matches(r, c) ==
    /\ c.neighborhood = "All" \/ r.neighbourhood_cleansed = c.neighborhood
    /\ c.room_type = "All" \/ r.room_type = c.room_type
    /\ c.price_min * 100 <= r.price
    /\ r.price <= c.price_max * 100

\* one of the three predicates applied alone
ApplyOne(rows, c, which) ==
    CASE which = "neighborhood" ->
            SelectSeq(rows, LAMBDA r :
                c.neighborhood = "All" \/ r.neighbourhood_cleansed = c.neighborhood)
      [] which = "room_type" ->
            SelectSeq(rows, LAMBDA r : c.room_type = "All" \/ r.room_type = c.room_type)
      [] which = "price" ->
            SelectSeq(rows, LAMBDA r :
                c.price_min * 100 <= r.price /\ r.price <= c.price_max * 100)

PredicateOrders ==
    {o \in [1..3 -> {"neighborhood", "room_type", "price"}] :
        \A i, j \in 1..3 : i # j => o[i] # o[j]}

ApplyInOrder(rows, c, o) == ApplyOne(ApplyOne(ApplyOne(rows, c, o[1]), c, o[2]), c, o[3])

\* C4: the filtered view is exactly the rows of the dataset that match the
\* neighbourhood (or 'All'), the room type (or 'All') and a <= price <= b, and
\* each of the six orders of the three predicates gives that same view.
C4_FilterIsConjunction ==
    filtered # None =>
        /\ criteria.price_min <= criteria.price_max
        /\ filtered.rows = SelectSeq(df.rows, LAMBDA r : Matches(r, criteria))
        /\ \A o \in PredicateOrders :
              ApplyInOrder(df.rows, criteria, o) = filtered.rows

C4_Witness ==
    /\ filtered # None
    /\ criteria.neighborhood # "All"
    /\ criteria.room_type # "All"
    /\ criteria.price_min < criteria.price_max
    /\ \E i \in 1..Len(filtered.rows) :
          filtered.rows[i].price = criteria.price_min * 100
    /\ \E i \in 1..Len(filtered.rows) :
          filtered.rows[i].price = criteria.price_max * 100
    /\ \E i \in 1..Len(df.rows) :
          df.rows[i].neighbourhood_cleansed # criteria.neighborhood
    /\ \E i \in 1..Len(df.rows) :
          /\ df.rows[i].neighbourhood_cleansed = criteria.neighborhood
          /\ df.rows[i].room_type # criteria.room_type
    /\ \E i \in 1..Len(df.rows) :
          /\ df.rows[i].neighbourhood_cleansed = criteria.neighborhood
          /\ df.rows[i].room_type = criteria.room_type
          /\ df.rows[i].price > criteria.price_max * 100

\* a displayed mean that is the text "nan" or the number 0
NanOrZero(shown) == shown \in {[text |-> "nan"], [number |-> 0], [tenths |-> 0]}

\* C5: when the criteria match no row, the view has size 0 and no mean shown
\* for it (Average Price, Average Reviews, the per-neighbourhood average price
\* line) is NaN or 0.
C5_EmptyViewMeansFlagged ==
    /\ (metrics # None /\ Len(filtered.rows) = 0) =>
          /\ metrics.total = 0
          /\ ~NanOrZero(metrics.avg_price)
          /\ ~NanOrZero(metrics.avg_reviews)
    /\ (top_expensive # None /\ Len(filtered.rows) = 0
            /\ criteria.neighborhood # "All") =>
          ~NanOrZero(top_expensive.avg_price)

\* the number of listings of neighbourhood n in the canonical dataset
Listings(n) ==
    Cardinality({i \in 1..Len(df.rows) : df.rows[i].neighbourhood_cleansed = n})

\* C6: the neighbourhood aggregation has one entry for each neighbourhood with
\* at least 3 listings and none for a neighbourhood with 1 or 2; the small
\* groups are left out without any error being reported.
C6_AggregationKeepsGroupsOfThree ==
    neighborhood_data # None =>
        /\ \A n \in Unique(df.rows, "neighbourhood_cleansed") :
              Cardinality({i \in 1..Len(neighborhood_data.rows) :
                  neighborhood_data.rows[i].neighbourhood_cleansed = n})
                = (IF Listings(n) >= 3 THEN 1 ELSE 0)
        /\ \A i \in 1..Len(neighborhood_data.rows) :
              /\ neighborhood_data.rows[i].total_listings
                    = Listings(neighborhood_data.rows[i].neighbourhood_cleansed)
              /\ neighborhood_data.rows[i].total_listings >= 3
        /\ error = "none"
        /\ pc \notin {"stopped", "crashed"}

C6_Witness ==
    /\ neighborhood_data # None
    /\ \E a, b, c \in Unique(df.rows, "neighbourhood_cleansed") :
          /\ Listings(a) = 2
          /\ Listings(b) = 3
          /\ Listings(c) = 1
          /\ Unique(neighborhood_data.rows, "neighbourhood_cleansed") = {b}

\* C7: every neighbourhood named in a neighbourhood-level insight (the two
\* charts of the analysis, and the 'Most Expensive Neighborhoods' list shown
\* when the selector is 'All') has at least 3 listings in the dataset.
C7_NoMeanForSmallNeighborhood ==
    /\ price_chart # None =>
          \A n \in Unique(price_chart.rows, "neighbourhood_cleansed") : Listings(n) >= 3
    /\ count_chart # None =>
          \A n \in Unique(count_chart.rows, "neighbourhood_cleansed") : Listings(n) >= 3
    /\ (top_expensive # None /\ criteria.neighborhood = "All") =>
          \A n \in Unique(top_expensive.top, "neighbourhood_cleansed") : Listings(n) >= 3

\* out is the first k entries of "descending by the metric, equal metrics by
\* ascending name" over all: ordered that way, of the right length, and no
\* entry left out would come before one that is in
RankedByMetricThenName(out, all, k, metric(_), label(_)) ==
    LET before(x, y) ==
            \/ metric(x) > metric(y)
            \/ metric(x) = metric(y) /\ NameRank(label(x)) < NameRank(label(y))
    IN  /\ Len(out) = Min2(k, Len(all))
        /\ \A i \in 1..Len(out) : \E j \in 1..Len(all) : all[j] = out[i]
        /\ \A i, j \in 1..Len(out) : i < j => ~before(out[j], out[i])
        /\ \A j \in 1..Len(all) :
              (\A i \in 1..Len(out) : out[i] # all[j]) =>
                  \A i \in 1..Len(out) : ~before(all[j], out[i])

\* the same for the list of most expensive neighbourhoods, whose metric is
\* the exact mean price of the group
RankedByMeanThenName(out, groups, k) ==
    LET meanOf(n) ==
            (CHOOSE g \in Range(groups) : g.neighbourhood_cleansed = n).mean
        before(x, y) ==
            \/ MeanGreater(meanOf(x), meanOf(y))
            \/ /\ ~MeanGreater(meanOf(y), meanOf(x))
               /\ NameRank(x) < NameRank(y)
        named == Unique(out, "neighbourhood_cleansed")
    IN  /\ Len(out) = Min2(k, Len(groups))
        /\ Cardinality(named) = Len(out)
        /\ named \subseteq Unique(groups, "neighbourhood_cleansed")
        /\ \A i, j \in 1..Len(out) :
              i < j => ~before(out[j].neighbourhood_cleansed,
                               out[i].neighbourhood_cleansed)
        /\ \A n \in Unique(groups, "neighbourhood_cleansed") \ named :
              \A m \in named : ~before(n, m)

\* C8: each top-K ranking (listings by review count, neighbourhoods by mean
\* price, by average price and by listing count) is the first K entries of
\* the order "descending by the metric, ties by ascending name".
C8_RankingTiesByName ==
    /\ top_reviewed # None =>
          RankedByMetricThenName(top_reviewed.rows, filtered.rows, 5,
              LAMBDA r : r.number_of_reviews, LAMBDA r : r.name)
    /\ price_chart # None =>
          RankedByMetricThenName(price_chart.rows, neighborhood_data.rows, 10,
              LAMBDA r : r.avg_price, LAMBDA r : r.neighbourhood_cleansed)
    /\ count_chart # None =>
          RankedByMetricThenName(count_chart.rows, neighborhood_data.rows, 10,
              LAMBDA r : r.total_listings, LAMBDA r : r.neighbourhood_cleansed)
    /\ (top_expensive # None /\ criteria.neighborhood = "All") =>
          RankedByMeanThenName(top_expensive.top, GroupMeans(df.rows), 5)

\* C9: a view of more than 500 rows is drawn on the map from exactly 500 of
\* its rows, and the total count and every price statistic shown (mean, min,
\* max) are those of the whole view, whichever rows were drawn.
C9_SamplingLeavesStatisticsAlone ==
    (price_stats # None /\ Len(filtered.rows) > 500) =>
        /\ Len(map_data.rows) = 500
        /\ metrics.total = Len(filtered.rows)
        /\ metrics.avg_price = Format0(Mean(Column(filtered.rows, "price")), 100)
        /\ price_stats = PriceStats(filtered)

\* C10: once loaded, the canonical dataset keeps its rows, values and order
\* through every step of every pass and every change of the selection.
C10_CanonicalDatasetNeverChanges == [][df # None => df' = df]_vars

C10_Witness ==
    /\ pc = "done"
    /\ criteria # [neighborhood |-> "All", room_type |-> "All",
                   price_min |-> DefaultLow, price_max |-> DefaultHigh]
    /\ df = Frame(ValidRows(source.rows))
    /\ Len(filtered.rows) > 0
    /\ Len(filtered.rows) < Len(df.rows)
    /\ map_df # None
    /\ neighborhood_data # None
    /\ Len(neighborhood_data.rows) > 0
    /\ top_reviewed # None

\* x brought into [lo, hi]
Clamp(x, lo, hi) == IF x < lo THEN lo ELSE IF x > hi THEN hi ELSE x

\* C11: over a non-empty dataset whose prices span [m, M], the range selected
\* at startup is the default [50, 300] clamped into the limits the script
\* derives from m and M: lo <= hi, both within those limits.
C11_StartupRangeClamped ==
    [][(pc = "widgets" /\ pc' = "filter") =>
          /\ criteria'.price_min = Clamp(DefaultLow, PriceMinInt(df), PriceMaxInt(df))
          /\ criteria'.price_max = Clamp(DefaultHigh, PriceMinInt(df), PriceMaxInt(df))
          /\ criteria'.price_min <= criteria'.price_max
          /\ PriceMinInt(df) <= criteria'.price_min
          /\ criteria'.price_max <= PriceMaxInt(df)]_vars

\* C12: with both selectors on "All" and the price range set to the limits of
\* the price control, the view holds every row of the canonical dataset, a row
\* at a maximum price that is not a whole number included.
C12_WidestRangeShowsEveryRow ==
    (/\ filtered # None
     /\ criteria = [neighborhood |-> "All", room_type |-> "All",
                    price_min |-> SliderLow(df), price_max |-> SliderHigh(df)])
        => filtered.rows = df.rows

====
